---------------------------- MODULE Spec2Model ----------------------------
(***************************************************************************)
(* A model of the cron expression compiler (parser.go) and of the interval *)
(* schedule (everySchedule) of akamensky/cronexp.                          *)
(*                                                                         *)
(* Text is a sequence of one-character strings.  A field mask (uint64) is  *)
(* the set of its set bit positions, a subset of 0..63.  An error is a     *)
(* record of its message kind and of the text the message quotes; the nil  *)
(* error is the record nil.                                                *)
(***************************************************************************)
EXTENDS Integers, Sequences, FiniteSets, TLC

VARIABLES
    pc,      \* "call": the inputs are drawn, "done": the operation returned
    expr,    \* the text given to getRange / getField / ParseWithLocation
    r,       \* the bounds given to getRange / getField
    zone,    \* the location given to ParseWithLocation
    d,       \* the duration given to every, in ticks
    ret,     \* what the operation returned
    delay,   \* everySchedule.delay, in ticks
    t,       \* the instant the scheduling loop holds, in ticks
    prev,    \* the instant it held before the last call of Next
    k        \* number of calls of Next so far

vars == <<pc, expr, r, zone, d, ret, delay, t, prev, k>>

----------------------------------------------------------------------------
(* Bounds of the model *)

\* longest text enumerated character by character for getRange
MaxLen == 5
\* most comma-separated pieces in an enumerated field text
MaxRanges == 3
\* the model's clock resolution: ticks per second (time.Second is 10^9 ns)
TicksPerSecond == 4
\* largest requested duration / starting instant, in seconds
MaxSeconds == 3
\* most calls of Next in one run
MaxCalls == 3

----------------------------------------------------------------------------
(* strings, strconv *)

Digits == <<"0", "1", "2", "3", "4", "5", "6", "7", "8", "9">>
UpperChars == <<"A", "B", "C", "D", "E", "F", "G", "H", "I", "J", "K", "L", "M",
                "N", "O", "P", "Q", "R", "S", "T", "U", "V", "W", "X", "Y", "Z">>
LowerChars == <<"a", "b", "c", "d", "e", "f", "g", "h", "i", "j", "k", "l", "m",
                "n", "o", "p", "q", "r", "s", "t", "u", "v", "w", "x", "y", "z">>

IsDigit(c) == \E i \in 1..Len(Digits) : Digits[i] = c
DigitVal(c) == (CHOOSE i \in 1..Len(Digits) : Digits[i] = c) - 1

\* strings.ToLower
ToLowerChar(c) ==
    IF \E i \in 1..Len(UpperChars) : UpperChars[i] = c
    THEN LowerChars[CHOOSE i \in 1..Len(UpperChars) : UpperChars[i] = c]
    ELSE c
ToLower(s) == [i \in 1..Len(s) |-> ToLowerChar(s[i])]

\* strings.HasPrefix
HasPrefix(s, p) == Len(s) >= Len(p) /\ SubSeq(s, 1, Len(p)) = p

\* the pieces of s between the characters of Seps; always at least one piece
RECURSIVE SplitFrom(_, _, _, _, _)
SplitFrom(s, Seps, i, cur, acc) ==
    IF i > Len(s) THEN Append(acc, cur)
    ELSE IF s[i] \in Seps THEN SplitFrom(s, Seps, i + 1, <<>>, Append(acc, cur))
    ELSE SplitFrom(s, Seps, i + 1, Append(cur, s[i]), acc)

\* strings.Split(s, sep) for a one-character sep
Split(s, sep) == SplitFrom(s, {sep}, 1, <<>>, <<>>)

\* strings.FieldsFunc(s, f): the pieces between the characters f accepts, the
\* empty pieces dropped
FieldsFunc(s, Seps) == SelectSeq(SplitFrom(s, Seps, 1, <<>>, <<>>), LAMBDA p : p # <<>>)

\* strings.Fields(s): FieldsFunc on white space
WhiteSpace == {" ", "\t", "\n"}
Fields(s) == FieldsFunc(s, WhiteSpace)

\* the value of a run of decimal digits
RECURSIVE DecimalFrom(_, _, _)
DecimalFrom(s, i, acc) ==
    IF i > Len(s) THEN acc ELSE DecimalFrom(s, i + 1, 10 * acc + DigitVal(s[i]))

\* strconv.Atoi: an optional sign, then one or more digits
Atoi(s) ==
    LET signed == Len(s) > 0 /\ s[1] \in {"+", "-"}
        body   == IF signed THEN SubSeq(s, 2, Len(s)) ELSE s
    IN  IF Len(body) = 0 \/ \E i \in 1..Len(body) : ~IsDigit(body[i])
        THEN [ok |-> FALSE, num |-> 0]
        ELSE [ok |-> TRUE,
              num |-> IF signed /\ s[1] = "-" THEN 0 - DecimalFrom(body, 1, 0)
                      ELSE DecimalFrom(body, 1, 0)]

----------------------------------------------------------------------------
(* errors *)

nil == [msg |-> "nil", text |-> <<>>]
Errorf(m, s) == [msg |-> m, text |-> s]

----------------------------------------------------------------------------
(* the bounds registry *)

starBit == 63
NoNames == <<>>
monthNames ==
    (<<"j", "a", "n">> :> 1) @@ (<<"f", "e", "b">> :> 2) @@ (<<"m", "a", "r">> :> 3) @@
    (<<"a", "p", "r">> :> 4) @@ (<<"m", "a", "y">> :> 5) @@ (<<"j", "u", "n">> :> 6) @@
    (<<"j", "u", "l">> :> 7) @@ (<<"a", "u", "g">> :> 8) @@ (<<"s", "e", "p">> :> 9) @@
    (<<"o", "c", "t">> :> 10) @@ (<<"n", "o", "v">> :> 11) @@ (<<"d", "e", "c">> :> 12)
dowNames ==
    (<<"s", "u", "n">> :> 0) @@ (<<"m", "o", "n">> :> 1) @@ (<<"t", "u", "e">> :> 2) @@
    (<<"w", "e", "d">> :> 3) @@ (<<"t", "h", "u">> :> 4) @@ (<<"f", "r", "i">> :> 5) @@
    (<<"s", "a", "t">> :> 6)

bounds(lo, hi, nm) == [min |-> lo, max |-> hi, names |-> nm]
seconds == bounds(0, 59, NoNames)
minutes == bounds(0, 59, NoNames)
hours   == bounds(0, 23, NoNames)
doms    == bounds(1, 31, NoNames)
months  == bounds(1, 12, monthNames)
dows    == bounds(0, 6, dowNames)

----------------------------------------------------------------------------
(* parser.go: the field compiler *)

\* 1 << i on a uint64
Shl1(i) == IF i < 64 THEN {i} ELSE {}

\* getBitsLoop with the loop's bound exclusive: for i := min; i < max
RECURSIVE getBitsLoop_exclusive(_, _, _, _)
getBitsLoop_exclusive(i, max, step, bits) ==
    IF i < max THEN getBitsLoop_exclusive(i + step, max, step, bits \cup Shl1(i)) ELSE bits

RECURSIVE getBitsLoop(_, _, _, _)
getBitsLoop(i, max, step, bits) ==
    IF i <= max THEN getBitsLoop(i + step, max, step, bits \cup Shl1(i)) ELSE bits

\* getBits with the upper shift one too far: MaxUint64 << (max + 2)
getBits_shiftTooFar(min, max, step) ==
    IF step = 1
    THEN {i \in 0..63 : ~(i >= max + 2) /\ i >= min}
    ELSE getBitsLoop(min, max, step, {})

getBits(min, max, step) ==
    IF step = 1
    THEN {i \in 0..63 : ~(i >= max + 1) /\ i >= min}
    ELSE getBitsLoop(min, max, step, {})

\* allBits without the star bit
allBits_noStar(b) == getBits(b.min, b.max, 1)

allBits(b) == getBits(b.min, b.max, 1) \cup {starBit}

mustParseInt(s) ==
    LET a == Atoi(s)
    IN  IF ~a.ok THEN [val |-> 0, err |-> Errorf("failed to parse int from", s)]
        ELSE IF a.num < 0 THEN [val |-> 0, err |-> Errorf("negative number", s)]
        ELSE [val |-> a.num, err |-> nil]

parseIntOrName(s, names) ==
    IF ToLower(s) \in DOMAIN names
    THEN [val |-> names[ToLower(s)], err |-> nil]
    ELSE mustParseInt(s)

\* what getRange returns when an atom or the syntax is bad
rangeError(e) ==
    [bits |-> {}, err |-> e, resolved |-> FALSE, start |-> 0, end |-> 0, step |-> 0]

\* getRange with start > end tested before the two bounds
getRange_orderFirst(e, b) ==
    LET rangeAndStep == Split(e, "/")
        lowAndHigh   == Split(rangeAndStep[1], "-")
        singleDigit  == Len(lowAndHigh) = 1
        star         == lowAndHigh[1] = <<"*">> \/ lowAndHigh[1] = <<"?">>
        lo           == parseIntOrName(lowAndHigh[1], b.names)
        hi           == parseIntOrName(lowAndHigh[2], b.names)
        st           == mustParseInt(rangeAndStep[2])
        start        == IF star THEN b.min ELSE lo.val
        end0         == IF star THEN b.max
                        ELSE IF Len(lowAndHigh) = 1 THEN start ELSE hi.val
        step         == IF Len(rangeAndStep) = 1 THEN 1 ELSE st.val
        end          == IF Len(rangeAndStep) = 2 /\ singleDigit THEN b.max ELSE end0
        extra        == IF star /\ ~(Len(rangeAndStep) = 2 /\ step > 1)
                        THEN {starBit} ELSE {}
        return(bits, err) ==
            [bits |-> bits, err |-> err, resolved |-> TRUE,
             start |-> start, end |-> end, step |-> step]
    IN  IF ~star /\ lo.err # nil THEN rangeError(lo.err)
        ELSE IF ~star /\ Len(lowAndHigh) = 2 /\ hi.err # nil THEN rangeError(hi.err)
        ELSE IF ~star /\ Len(lowAndHigh) > 2 THEN rangeError(Errorf("too many hyphens", e))
        ELSE IF Len(rangeAndStep) = 2 /\ st.err # nil THEN rangeError(st.err)
        ELSE IF Len(rangeAndStep) > 2 THEN rangeError(Errorf("too many slashes", e))
        ELSE IF start > end THEN return({}, Errorf("beyond end of range", e))
        ELSE IF start < b.min THEN return({}, Errorf("below minimum", e))
        ELSE IF end > b.max THEN return({}, Errorf("above maximum", e))
        ELSE IF step = 0 THEN return({}, Errorf("should be a positive number", e))
        ELSE return(getBits(start, end, step) \cup extra, nil)

\* getRange; beside (bits, err) the record holds the locals start, end and step
\* as they stand at the return, once all three are resolved.
getRange(e, b) ==
    LET rangeAndStep == Split(e, "/")
        lowAndHigh   == Split(rangeAndStep[1], "-")
        singleDigit  == Len(lowAndHigh) = 1
        star         == lowAndHigh[1] = <<"*">> \/ lowAndHigh[1] = <<"?">>
        lo           == parseIntOrName(lowAndHigh[1], b.names)
        hi           == parseIntOrName(lowAndHigh[2], b.names)
        st           == mustParseInt(rangeAndStep[2])
        start        == IF star THEN b.min ELSE lo.val
        end0         == IF star THEN b.max
                        ELSE IF Len(lowAndHigh) = 1 THEN start ELSE hi.val
        step         == IF Len(rangeAndStep) = 1 THEN 1 ELSE st.val
        end          == IF Len(rangeAndStep) = 2 /\ singleDigit THEN b.max ELSE end0
        extra        == IF star /\ ~(Len(rangeAndStep) = 2 /\ step > 1)
                        THEN {starBit} ELSE {}
        return(bits, err) ==
            [bits |-> bits, err |-> err, resolved |-> TRUE,
             start |-> start, end |-> end, step |-> step]
    IN  IF ~star /\ lo.err # nil THEN rangeError(lo.err)
        ELSE IF ~star /\ Len(lowAndHigh) = 2 /\ hi.err # nil THEN rangeError(hi.err)
        ELSE IF ~star /\ Len(lowAndHigh) > 2 THEN rangeError(Errorf("too many hyphens", e))
        ELSE IF Len(rangeAndStep) = 2 /\ st.err # nil THEN rangeError(st.err)
        ELSE IF Len(rangeAndStep) > 2 THEN rangeError(Errorf("too many slashes", e))
        ELSE IF start < b.min THEN return({}, Errorf("below minimum", e))
        ELSE IF end > b.max THEN return({}, Errorf("above maximum", e))
        ELSE IF start > end THEN return({}, Errorf("beyond end of range", e))
        ELSE IF step = 0 THEN return({}, Errorf("should be a positive number", e))
        ELSE return(getBits(start, end, step) \cup extra, nil)

\* getField: the union of the ranges of a comma-separated list; at the first
\* range that fails, the bits gathered so far and that range's error
RECURSIVE getFieldLoop(_, _, _, _)
getFieldLoop(ranges, i, b, bits) ==
    IF i > Len(ranges) THEN [bits |-> bits, err |-> nil]
    ELSE LET g == getRange(ranges[i], b)
         IN  IF g.err # nil THEN [bits |-> bits, err |-> g.err]
             ELSE getFieldLoop(ranges, i + 1, b, bits \cup g.bits)

\* getField with bits = bit in place of bits |= bit
RECURSIVE getFieldLoop_overwrite(_, _, _, _)
getFieldLoop_overwrite(ranges, i, b, bits) ==
    IF i > Len(ranges) THEN [bits |-> bits, err |-> nil]
    ELSE LET g == getRange(ranges[i], b)
         IN  IF g.err # nil THEN [bits |-> bits, err |-> g.err]
             ELSE getFieldLoop_overwrite(ranges, i + 1, b, g.bits)
getField_overwrite(f, b) == getFieldLoop_overwrite(FieldsFunc(f, {","}), 1, b, {})

getField(f, b) == getFieldLoop(FieldsFunc(f, {","}), 1, b, {})

----------------------------------------------------------------------------
(* the interval schedule *)

\* time.Second, in ticks
Second == TicksPerSecond

\* Go's % on integers: the remainder has the sign of the dividend
GoRem(a, b) == IF a >= 0 THEN a % b ELSE 0 - ((0 - a) % b)

\* every without the clamp to one second
every_noClamp(duration) ==
    [kind |-> "every", delay |-> duration - GoRem(duration, Second)]

every(duration) ==
    LET clamped == IF duration < Second THEN Second ELSE duration
    IN  [kind |-> "every", delay |-> clamped - GoRem(clamped, Second)]

\* Time.Nanosecond(): the offset within the second, never negative
Nanosecond(tm) == tm % Second

\* Next without the rounding to the second
everyNext_noRounding(s, tm) == tm + s.delay

\* everySchedule.Next
everyNext(s, tm) == tm + (s.delay - Nanosecond(tm))

----------------------------------------------------------------------------
(* parser.go: the expression compiler *)

nilSchedule == [kind |-> "nil"]

specSchedule(second, minute, hour, dom, month, dow, location) ==
    [kind |-> "spec", second |-> second, minute |-> minute, hour |-> hour,
     dom |-> dom, month |-> month, dow |-> dow, location |-> location]

\* time.ParseDuration on texts made of a sign, digits and the units s, m, h:
\* one or more groups of digits followed by a unit, or "0"
unitTicks == ("s" :> Second) @@ ("m" :> 60 * Second) @@ ("h" :> 3600 * Second)

RECURSIVE durationFrom(_, _, _, _)
durationFrom(s, i, num, acc) ==
    \* num: the digits read since the last unit, -1 when there are none
    IF i > Len(s) THEN (IF num = -1 THEN [ok |-> TRUE, d |-> acc] ELSE [ok |-> FALSE, d |-> 0])
    ELSE IF IsDigit(s[i])
         THEN durationFrom(s, i + 1, 10 * (IF num = -1 THEN 0 ELSE num) + DigitVal(s[i]), acc)
    ELSE IF num # -1 /\ s[i] \in DOMAIN unitTicks
         THEN durationFrom(s, i + 1, -1, acc + num * unitTicks[s[i]])
    ELSE [ok |-> FALSE, d |-> 0]

ParseDuration(s) ==
    LET signed == Len(s) > 0 /\ s[1] \in {"+", "-"}
        body   == IF signed THEN SubSeq(s, 2, Len(s)) ELSE s
        p      == durationFrom(body, 1, -1, 0)
    IN  IF body = <<"0">> THEN [ok |-> TRUE, d |-> 0]
        ELSE IF body = <<>> \/ ~p.ok THEN [ok |-> FALSE, d |-> 0]
        ELSE [ok |-> TRUE, d |-> IF signed /\ s[1] = "-" THEN 0 - p.d ELSE p.d]

bit(i) == Shl1(i)

everyDescriptor == <<"@", "e", "v", "e", "r", "y", " ">>

parseDescriptor(descriptor, loc) ==
    IF descriptor \in {<<"@", "y", "e", "a", "r", "l", "y">>,
                       <<"@", "a", "n", "n", "u", "a", "l", "l", "y">>}
    THEN [sched |-> specSchedule(bit(seconds.min), bit(minutes.min), bit(hours.min),
                                 bit(doms.min), bit(months.min), allBits(dows), loc),
          err |-> nil]
    ELSE IF descriptor = <<"@", "m", "o", "n", "t", "h", "l", "y">>
    THEN [sched |-> specSchedule(bit(seconds.min), bit(minutes.min), bit(hours.min),
                                 bit(doms.min), allBits(months), allBits(dows), loc),
          err |-> nil]
    ELSE IF descriptor = <<"@", "w", "e", "e", "k", "l", "y">>
    THEN [sched |-> specSchedule(bit(seconds.min), bit(minutes.min), bit(hours.min),
                                 allBits(doms), allBits(months), bit(dows.min), loc),
          err |-> nil]
    ELSE IF descriptor \in {<<"@", "d", "a", "i", "l", "y">>,
                            <<"@", "m", "i", "d", "n", "i", "g", "h", "t">>}
    THEN [sched |-> specSchedule(bit(seconds.min), bit(minutes.min), bit(hours.min),
                                 allBits(doms), allBits(months), allBits(dows), loc),
          err |-> nil]
    ELSE IF descriptor = <<"@", "h", "o", "u", "r", "l", "y">>
    THEN [sched |-> specSchedule(bit(seconds.min), bit(minutes.min), allBits(hours),
                                 allBits(doms), allBits(months), allBits(dows), loc),
          err |-> nil]
    ELSE IF HasPrefix(descriptor, everyDescriptor)
    THEN LET p == ParseDuration(SubSeq(descriptor, Len(everyDescriptor) + 1, Len(descriptor)))
         IN  IF ~p.ok
             THEN [sched |-> nilSchedule,
                   err |-> Errorf("failed to parse duration", descriptor)]
             ELSE [sched |-> every(p.d), err |-> nil]
    ELSE [sched |-> nilSchedule, err |-> Errorf("unrecognized descriptor", descriptor)]

\* the closure without its guard on err: every field is compiled
field_unguarded(err, f, b) == getField(f, b)

\* the closure field of ParseWithLocation: once err is set no field is compiled
field(err, f, b) == IF err # nil THEN [bits |-> {}, err |-> err] ELSE getField(f, b)

\* the six fields in the order ParseWithLocation compiles them
fieldBounds == <<seconds, minutes, hours, doms, months, dows>>

\* the calls of field on fields[i], fields[i+1], ..., in order, err threaded
\* through them; fieldsAfter holds what the call on fields[i] returned
RECURSIVE fieldsFrom(_, _, _, _), fieldsAfter(_, _, _, _)
fieldsFrom(fields, i, err, masks) ==
    IF i > Len(fieldBounds) THEN [masks |-> masks, err |-> err]
    ELSE fieldsAfter(fields, i, masks, field(err, fields[i], fieldBounds[i]))
fieldsAfter(fields, i, masks, c) ==
    fieldsFrom(fields, i + 1, c.err, Append(masks, c.bits))

\* the end of ParseWithLocation, the six fields compiled
parsed(c, loc) ==
    IF c.err # nil THEN [sched |-> nilSchedule, err |-> c.err]
    ELSE [sched |-> specSchedule(c.masks[1], c.masks[2], c.masks[3],
                                 c.masks[4], c.masks[5], c.masks[6], loc),
          err |-> nil]

ParseWithLocation(spec, loc) ==
    IF Len(spec) = 0
    THEN [sched |-> nilSchedule, err |-> Errorf("empty spec string", <<>>)]
    ELSE IF HasPrefix(spec, <<"@">>) THEN parseDescriptor(spec, loc)
    ELSE IF Len(Fields(spec)) # Len(fieldBounds)
    THEN [sched |-> nilSchedule, err |-> Errorf("expected exactly 6 fields", Fields(spec))]
    ELSE parsed(fieldsFrom(Fields(spec), 1, nil, <<>>), loc)

----------------------------------------------------------------------------
(* the inputs *)

\* every text of at most n characters of Chars
Texts(Chars, n) == UNION {[1..m -> Chars] : m \in 0..n}

RECURSIVE Join(_, _)
Join(ss, sep) ==
    IF Len(ss) = 0 THEN <<>>
    ELSE IF Len(ss) = 1 THEN ss[1]
    ELSE ss[1] \o <<sep>> \o Join(Tail(ss), sep)

\* range expressions: every short text of RangeChars, and some longer ones
RangeChars == {"*", "-", "/", "0", "2", "5"}
MoreExprs ==
    {<<"?">>, <<"?", "/", "2">>, <<"+", "2">>, <<"7">>,
     <<"5", "-", "7", "/", "2">>, <<"j", "a", "n">>,
     <<"J", "A", "N", "-", "m", "a", "r">>, <<"f", "e", "b", "/", "3">>,
     <<"x">>, <<"2", "-", "x">>, <<"*", "-", "2", "-", "5", "/", "2">>,
     <<"2", "-", "5", "-", "7">>, <<"s", "u", "n">>, <<"*", "/", "+", "1">>,
     <<"3", "-", "1">>, <<"4", "-", "1">>, <<"7", "/", "2">>,
     <<"7", "-", "4">>}
RangeExprs == Texts(RangeChars, MaxLen) \cup MoreExprs
RangeBounds == {bounds(0, 7, NoNames), bounds(1, 3, NoNames), bounds(3, 5, NoNames), months}

\* field texts: up to MaxRanges pieces joined by commas
Pieces ==
    {<<>>, <<"*">>, <<"2">>, <<"5">>, <<"2", "-", "5", "/", "2">>,
     <<"*", "/", "2">>, <<"x">>, <<"7">>, <<"?", "/", "1">>,
     <<"0", "-", "2">>, <<"j", "a", "n">>}
FieldTexts == {Join(p, ",") : p \in UNION {[1..m -> Pieces] : m \in 1..MaxRanges}}
FieldBounds == {bounds(1, 7, NoNames), seconds, months}

\* expressions: six fields joined by one space, and some other texts
SixFieldTexts ==
    {<<"*">>, <<"0">>, <<"7">>, <<"x">>, <<",">>,
     <<"*", "/", "2", ",", "1">>}
SixFields == [1..6 -> SixFieldTexts]
OtherSpecs ==
    {<<>>, <<"*", " ", "*", " ", "*", " ", "*">>,
     <<"*", " ", " ", "5", " ", "*", " ", "*", " ", "*", " ", "*", "\t">>,
     <<"*", " ", "*", " ", "*", " ", "*", " ", "*", " ", "*", " ", "*">>,
     <<"@", "y", "e", "a", "r", "l", "y">>,
     <<"@", "a", "n", "n", "u", "a", "l", "l", "y">>,
     <<"@", "m", "o", "n", "t", "h", "l", "y">>,
     <<"@", "w", "e", "e", "k", "l", "y">>,
     <<"@", "d", "a", "i", "l", "y">>,
     <<"@", "m", "i", "d", "n", "i", "g", "h", "t">>,
     <<"@", "h", "o", "u", "r", "l", "y">>,
     <<"@", "e", "v", "e", "r", "y", " ", "5", "m">>,
     <<"@", "e", "v", "e", "r", "y", " ", "1", "s">>,
     <<"@", "e", "v", "e", "r", "y", " ", "1", "h", "1", "m">>,
     <<"@", "e", "v", "e", "r", "y", " ", "0">>,
     <<"@", "e", "v", "e", "r", "y", " ", "-", "2", "s">>,
     <<"@", "e", "v", "e", "r", "y", " ", "X", "m">>,
     <<"@", "e", "v", "e", "r", "y", " ">>,
     <<"@", "e", "v", "e", "r", "y">>,
     <<"@", "e", "v", "e", "r", "y", "5", "m">>,
     <<"@", "e", "v", "e", "r", "y", " ", "5">>,
     <<"@", "u", "n", "r", "e", "c", "o", "g", "n", "i", "z", "e", "d">>,
     <<"@", "Y", "e", "a", "r", "l", "y">>,
     <<"@", "y", "e", "a", "r", "l", "y", " ">>, <<"@">>,
     <<"@", " ", "h", "o", "u", "r", "l", "y">>}
Locations == {"Local", "UTC"}

\* requested durations and starting instants, in ticks
Durations == (0 - MaxSeconds * Second)..(MaxSeconds * Second)
Instants == (0 - Second)..(MaxSeconds * Second)

----------------------------------------------------------------------------
(* the state machines: the inputs are drawn, then the operation is applied *)

noReturn == [err |-> nil]

InitRange ==
    /\ pc = "call" /\ ret = noReturn
    /\ expr \in RangeExprs /\ r \in RangeBounds
    /\ zone = "Local" /\ d = 0 /\ delay = 0 /\ t = 0 /\ prev = 0 /\ k = 0

CallGetRange ==
    /\ pc = "call"
    /\ ret' = getRange(expr, r)
    /\ pc' = "done"
    /\ UNCHANGED <<expr, r, zone, d, delay, t, prev, k>>

SpecRange == InitRange /\ [][CallGetRange]_vars

InitField ==
    /\ pc = "call" /\ ret = noReturn
    /\ expr \in FieldTexts /\ r \in FieldBounds
    /\ zone = "Local" /\ d = 0 /\ delay = 0 /\ t = 0 /\ prev = 0 /\ k = 0

CallGetField ==
    /\ pc = "call"
    /\ ret' = getField(expr, r)
    /\ pc' = "done"
    /\ UNCHANGED <<expr, r, zone, d, delay, t, prev, k>>

SpecField == InitField /\ [][CallGetField]_vars

InitParse ==
    /\ pc = "call" /\ ret = noReturn
    /\ \/ \E f \in SixFields : expr = Join(f, " ")
       \/ expr \in OtherSpecs
    /\ zone \in Locations
    /\ r = seconds /\ d = 0 /\ delay = 0 /\ t = 0 /\ prev = 0 /\ k = 0

CallParse ==
    /\ pc = "call"
    /\ ret' = ParseWithLocation(expr, zone)
    /\ pc' = "done"
    /\ UNCHANGED <<expr, r, zone, d, delay, t, prev, k>>

SpecParse == InitParse /\ [][CallParse]_vars

InitEvery ==
    /\ pc = "call" /\ ret = noReturn
    /\ d \in Durations /\ t \in Instants
    /\ expr = <<>> /\ r = seconds /\ zone = "Local"
    /\ delay = 0 /\ prev = t /\ k = 0

CallEvery ==
    /\ pc = "call"
    /\ ret' = every(d)
    /\ delay' = every(d).delay
    /\ pc' = "done"
    /\ UNCHANGED <<expr, r, zone, d, t, prev, k>>

CallNext ==
    /\ pc = "done"
    /\ k < MaxCalls
    /\ t' = everyNext(ret, t)
    /\ prev' = t
    /\ k' = k + 1
    /\ UNCHANGED <<pc, expr, r, zone, d, ret, delay>>

NextEvery == CallEvery \/ CallNext

SpecEvery == InitEvery /\ [][NextEvery]_vars

----------------------------------------------------------------------------
(* the claims *)

\* the value bits of a mask: every bit but the wildcard marker
valueBits(m) == m \ {starBit}

\* the number of characters c in s
Count(s, c) == Cardinality({i \in 1..Len(s) : s[i] = c})

AllDigits(s) == Len(s) > 0 /\ \A i \in 1..Len(s) : IsDigit(s[i])

\* a schedule returned without error from a six-field expression
SixFieldSchedule ==
    /\ pc = "done" /\ ret.err = nil
    /\ Len(expr) > 0 /\ ~HasPrefix(expr, <<"@">>)

\* a schedule of six field masks returned without error
SpecScheduleReturned == pc = "done" /\ ret.err = nil /\ ret.sched.kind = "spec"

maskOf(sched) ==
    <<sched.second, sched.minute, sched.hour, sched.dom, sched.month, sched.dow>>

\* C1: every schedule ParseWithLocation returns without error from a six-field
\* expression has at least one value bit set in each of its six fields.
C1_NoFieldEmpty ==
    SixFieldSchedule => \A i \in 1..6 : valueBits(maskOf(ret.sched)[i]) # {}

\* C2: every value bit of every field mask of a schedule ParseWithLocation
\* returns without error lies within the field's bounds: second 0-59, minute
\* 0-59, hour 0-23, day-of-month 1-31, month 1-12, day-of-week 0-6.
C2_ValueBitsWithinBounds ==
    SpecScheduleReturned =>
        /\ valueBits(ret.sched.second) \subseteq 0..59
        /\ valueBits(ret.sched.minute) \subseteq 0..59
        /\ valueBits(ret.sched.hour) \subseteq 0..23
        /\ valueBits(ret.sched.dom) \subseteq 1..31
        /\ valueBits(ret.sched.month) \subseteq 1..12
        /\ valueBits(ret.sched.dow) \subseteq 0..6

\* a six-field schedule whose fields reach both ends of their bounds
C2_Witness ==
    /\ SixFieldSchedule
    /\ {0, 59} \subseteq ret.sched.second /\ {1, 31} \subseteq ret.sched.dom
    /\ ret.sched.dow = {0, 1, 2, 4, 6}

\* the range part of a range expression: the text before its first slash
rangePart(e) == Split(e, "/")[1]

\* C3: getRange returns an error for every range expression with more than
\* one hyphen in its range part or more than one slash, also when the first
\* atom is '*' or '?'.
C3_TooManyHyphensOrSlashesFail ==
    (pc = "done" /\ (Count(rangePart(expr), "-") > 1 \/ Count(expr, "/") > 1))
        => ret.err # nil

\* the fields of a six-field expression that getField rejects
invalidFields(e) ==
    {i \in 1..6 : getField(Fields(e)[i], fieldBounds[i]).err # nil}
leftmost(S) == CHOOSE i \in S : \A j \in S : i <= j

\* C4: an error of ParseWithLocation comes with the nil schedule, and for a
\* six-field expression with invalid fields it is the error of the leftmost
\* invalid field.
C4_FirstFieldErrorAndNilSchedule ==
    pc = "done" =>
        /\ ret.err # nil => ret.sched = nilSchedule
        /\ (Len(expr) > 0 /\ ~HasPrefix(expr, <<"@">>) /\ Len(Fields(expr)) = 6
              /\ invalidFields(expr) # {})
            => LET i == leftmost(invalidFields(expr))
               IN  ret.err = getField(Fields(expr)[i], fieldBounds[i]).err

\* day-of-month 0 is rejected first, though month x and day-of-week 7 are
\* invalid too
C4_Witness ==
    /\ pc = "done"
    /\ expr = <<"*", " ", "*", " ", "*", " ", "0", " ", "x", " ", "7">>
    /\ ret.err = Errorf("below minimum", <<"0">>)
    /\ ret.sched = nilSchedule

\* C5: along t(k+1) = S.Next(t(k)) of an interval schedule, every t(k), k >= 1,
\* is on a whole second; Next(t) is strictly later than t and equals t minus
\* its sub-second remainder plus the delay; consecutive firings are exactly
\* the delay apart.
C5_NextAlignedAndSpaced ==
    /\ k >= 1 => /\ t % Second = 0
                 /\ t > prev
                 /\ t = prev - (prev % Second) + delay
    /\ k >= 2 => t - prev = delay

\* two calls of Next from an instant before the epoch; the requested duration
\* is no whole number of seconds and the delay is two seconds
C5_Witness ==
    /\ k = 2 /\ delay = 2 * Second
    /\ prev - delay < 0 /\ d % Second # 0

\* C6: every(d) stores a delay of at least one second that is a whole number
\* of seconds: one second when d is below one second, else d truncated to
\* whole seconds.
C6_DelayWholeSeconds ==
    pc = "done" =>
        /\ delay >= Second
        /\ \E n \in 1..(MaxSeconds + 1) : delay = n * Second
        /\ d < Second => delay = Second
        /\ d >= Second => delay = (d \div Second) * Second

\* one and a half seconds become one second
C6_Witness ==
    pc = "done" /\ 2 * d = 3 * Second /\ delay = Second

\* the wildcard mask of bounds lo..hi
wildcard(lo, hi) == (lo..hi) \cup {starBit}

atYearly == {<<"@", "y", "e", "a", "r", "l", "y">>,
             <<"@", "a", "n", "n", "u", "a", "l", "l", "y">>}
atMonthly == <<"@", "m", "o", "n", "t", "h", "l", "y">>
atWeekly == <<"@", "w", "e", "e", "k", "l", "y">>
atDaily == {<<"@", "d", "a", "i", "l", "y">>,
            <<"@", "m", "i", "d", "n", "i", "g", "h", "t">>}
atHourly == <<"@", "h", "o", "u", "r", "l", "y">>

\* C7: parseDescriptor maps @yearly/@annually, @monthly, @weekly,
\* @daily/@midnight and @hourly to their schedules (a field at its minimum
\* holds only that bit, the others are wildcards), text starting with
\* '@every ' to an interval schedule or a 'failed to parse duration' error,
\* and any other '@' text to an 'unrecognized descriptor' error and no schedule.
C7_Descriptors ==
    (pc = "done" /\ HasPrefix(expr, <<"@">>)) =>
        IF expr \in atYearly
        THEN ret = [err |-> nil, sched |-> specSchedule({0}, {0}, {0}, {1}, {1},
                                                       wildcard(0, 6), zone)]
        ELSE IF expr = atMonthly
        THEN ret = [err |-> nil, sched |-> specSchedule({0}, {0}, {0}, {1},
                                           wildcard(1, 12), wildcard(0, 6), zone)]
        ELSE IF expr = atWeekly
        THEN ret = [err |-> nil, sched |-> specSchedule({0}, {0}, {0},
                                           wildcard(1, 31), wildcard(1, 12), {0}, zone)]
        ELSE IF expr \in atDaily
        THEN ret = [err |-> nil, sched |-> specSchedule({0}, {0}, {0},
                                wildcard(1, 31), wildcard(1, 12), wildcard(0, 6), zone)]
        ELSE IF expr = atHourly
        THEN ret = [err |-> nil, sched |-> specSchedule({0}, {0}, wildcard(0, 23),
                                wildcard(1, 31), wildcard(1, 12), wildcard(0, 6), zone)]
        ELSE IF HasPrefix(expr, everyDescriptor)
        THEN \/ ret.err = nil /\ ret.sched.kind = "every"
             \/ ret.err = Errorf("failed to parse duration", expr) /\ ret.sched = nilSchedule
        ELSE ret.err = Errorf("unrecognized descriptor", expr) /\ ret.sched = nilSchedule

\* @weekly fires on Sundays only
C7_Witness ==
    /\ pc = "done" /\ expr = atWeekly
    /\ ret.sched.dow = {0} /\ starBit \in ret.sched.dom

\* the progression low, low + step, ... up to high
progression(low, high, step) ==
    {v \in low..high : \E j \in 0..(high - low) : v = low + j * step}

\* C8: an accepted range expression with resolved low, high and step >= 1 has
\* exactly the value bits low + j*step <= high: a bare value N exactly bit N,
\* 'lo-hi' exactly the hi-lo+1 bits lo..hi, 'N/step' those of 'N-max/step'.
C8_ExactProgression ==
    (pc = "done" /\ ret.err = nil) =>
        LET parts == Split(expr, "/")
            atoms == Split(parts[1], "-")
        IN  /\ ret.step >= 1
            /\ valueBits(ret.bits) = progression(ret.start, ret.end, ret.step)
            /\ AllDigits(expr) => ret.bits = {DecimalFrom(expr, 1, 0)}
            /\ (Len(parts) = 1 /\ Len(atoms) = 2 /\ AllDigits(atoms[1]) /\ AllDigits(atoms[2]))
                => /\ ret.bits = DecimalFrom(atoms[1], 1, 0)..DecimalFrom(atoms[2], 1, 0)
                   /\ Cardinality(ret.bits)
                        = DecimalFrom(atoms[2], 1, 0) - DecimalFrom(atoms[1], 1, 0) + 1
            /\ (Len(parts) = 2 /\ AllDigits(parts[1]) /\ AllDigits(parts[2]))
                => ret.bits = progression(DecimalFrom(parts[1], 1, 0), r.max,
                                          DecimalFrom(parts[2], 1, 0))

\* 2/2 over 0..7 is 2, 4, 6
C8_Witness ==
    /\ pc = "done" /\ expr = <<"2", "/", "2">> /\ r.max = 7
    /\ ret.err = nil /\ ret.bits = {2, 4, 6}

\* C9: getRange fails with 'below minimum' whenever a resolved range value is
\* below the minimum and with 'above maximum' whenever one is above the
\* maximum (when values lie on both sides, with either); 'beyond end of range'
\* is reported only when both values are within bounds and low > high.
C9_BoundsErrors ==
    (pc = "done" /\ ret.resolved) =>
        LET below == ret.start < r.min \/ ret.end < r.min
            above == ret.start > r.max \/ ret.end > r.max
        IN  /\ (below /\ ~above) => ret.err.msg = "below minimum"
            /\ (above /\ ~below) => ret.err.msg = "above maximum"
            /\ (above /\ below) => ret.err.msg \in {"below minimum", "above maximum"}
            /\ ret.err.msg = "beyond end of range"
                => /\ ret.start \in r.min..r.max /\ ret.end \in r.min..r.max
                   /\ ret.start > ret.end

\* C9 as amended: once low, high and step are resolved, getRange fails with
\* 'below minimum' whenever low is below the minimum, with 'above maximum'
\* whenever low is not below the minimum and high is above the maximum, and
\* with 'beyond end of range' exactly when low is not below the minimum, high
\* is not above the maximum and low > high.
C9_BoundsErrorsInOrder ==
    (pc = "done" /\ ret.resolved) =>
        /\ ret.start < r.min => ret.err.msg = "below minimum"
        /\ (ret.start >= r.min /\ ret.end > r.max) => ret.err.msg = "above maximum"
        /\ ret.err.msg = "beyond end of range"
            <=> (ret.start >= r.min /\ ret.end <= r.max /\ ret.start > ret.end)

\* 5-2 over 3..5: the high value is below the minimum, the error is 'beyond
\* end of range'
C9_Witness ==
    /\ pc = "done" /\ expr = <<"5", "-", "2">> /\ r = bounds(3, 5, NoNames)
    /\ ret.err = Errorf("beyond end of range", expr)

\* the first atom of a range expression
firstAtom(e) == SplitFrom(e, {"-", "/"}, 1, <<>>, <<>>)[1]
\* whether a range expression asks for the wildcard marker: its first atom is
\* '*' or '?' and it has no step or a step of 1
asksMarker(e) ==
    /\ firstAtom(e) \in {<<"*">>, <<"?">>}
    /\ \/ Count(e, "/") = 0
       \/ Count(e, "/") = 1 /\ Atoi(Split(e, "/")[2]) = [ok |-> TRUE, num |-> 1]

\* C10: a mask getField returns without error has the wildcard marker iff one
\* of its range expressions has '*' or '?' as first atom and no step or a step
\* of 1; '*' alone yields all of [min,max] and the marker, '*/step' with
\* step > 1 the stepped subset without the marker; the value bits are the
\* union of the value bits of the range expressions.
C10_MarkerAndUnion ==
    (pc = "done" /\ ret.err = nil) =>
        LET ranges == FieldsFunc(expr, {","})
        IN  /\ starBit \in ret.bits <=> \E i \in 1..Len(ranges) : asksMarker(ranges[i])
            /\ valueBits(ret.bits)
                 = UNION {valueBits(getRange(ranges[i], r).bits) : i \in 1..Len(ranges)}
            /\ expr = <<"*">> => ret.bits = (r.min..r.max) \cup {starBit}
            /\ expr = <<"*", "/", "2">> => ret.bits = progression(r.min, r.max, 2)

\* a stepped wildcard and a value: no marker, both ranges' bits
C10_Witness ==
    /\ pc = "done" /\ ret.err = nil /\ r = bounds(1, 7, NoNames)
    /\ expr = <<"*", "/", "2", ",", "2">>
    /\ ret.bits = {1, 2, 3, 5, 7}

=============================================================================
